---- MODULE Spec2Model ----
(***************************************************************************)
(* Akkurate: the iced application state machine (src/ui/app.rs), the       *)
(* Gemini client pipeline (src/api/gemini.rs), the preset manager          *)
(* (src/core/presets.rs) and the localized strings (src/ui/i18n.rs).       *)
(*                                                                         *)
(* A Rust String is modelled as a sequence of atoms.  An atom is either a  *)
(* single character (" ", "j", "a", ...) or a literal of the program (a    *)
(* localized message, a JSON document) that the code only ever copies or   *)
(* compares as a whole.  Concatenation (push_str, format!) is \o.  The     *)
(* Chinese literals are written as ASCII glosses prefixed with "zh:".      *)
(* Option<T> is a sequence of length 0 (None) or 1 (Some).                 *)
(***************************************************************************)
EXTENDS Naturals, Sequences, FiniteSets

VARIABLES
    gemini_client,    \* App.gemini_client: Option of [api_key]
    config_key,       \* App.config.api.gemini_key
    api_key_input,    \* App.api_key_input
    preset_manager,   \* App.preset_manager.presets: key -> StylePreset
    current_view,     \* App.current_view
    input_content,    \* App.input_content.text()
    result_text,      \* App.result_text
    selected_preset,  \* App.selected_preset
    is_loading,       \* App.is_loading
    error_message,    \* App.error_message: Option<String>
    language,         \* App.language
    task,             \* the message of a Task::perform(async {}, ..) not yet delivered
    outstanding,      \* the network tasks spawned and not yet completed, in dispatch order
    dispatched,       \* number of network tasks spawned so far
    completed,        \* number of completion messages handled so far
    call              \* a call of a function of the program made on its own: None, or
                      \* Some record of the function, its arguments and what it returned

vars == <<gemini_client, config_key, api_key_input, preset_manager, current_view,
          input_content, result_text, selected_preset, is_loading, error_message,
          language, task, outstanding, dispatched, completed, call>>

----------------------------------------------------------------------------
(* Option and Result *)

None == <<>>
Some(x) == <<x>>
IsSome(o) == Len(o) = 1
Unwrap(o) == o[1]

Ok(v) == [ok |-> TRUE, val |-> v, err |-> <<>>]
Err(e) == [ok |-> FALSE, val |-> <<>>, err |-> e]

----------------------------------------------------------------------------
(* Strings *)

Whitespace == {" ", "\n", "\t"}

RECURSIVE TrimStart(_)
TrimStart(s) ==
    IF s # <<>> /\ Head(s) \in Whitespace THEN TrimStart(Tail(s)) ELSE s

RECURSIVE TrimEnd(_)
TrimEnd(s) ==
    IF s # <<>> /\ s[Len(s)] \in Whitespace
    THEN TrimEnd(SubSeq(s, 1, Len(s) - 1))
    ELSE s

\* str::trim
Trim(s) == TrimEnd(TrimStart(s))

\* str::starts_with
StartsWith(s, p) == Len(s) >= Len(p) /\ SubSeq(s, 1, Len(p)) = p

\* str::ends_with
EndsWith(s, p) == Len(s) >= Len(p) /\ SubSeq(s, Len(s) - Len(p) + 1, Len(s)) = p

\* str::trim_start_matches: removes the prefix repeatedly
RECURSIVE TrimStartMatches(_, _)
TrimStartMatches(s, p) ==
    IF StartsWith(s, p) THEN TrimStartMatches(SubSeq(s, Len(p) + 1, Len(s)), p) ELSE s

\* str::trim_end_matches: removes the suffix repeatedly
RECURSIVE TrimEndMatches(_, _)
TrimEndMatches(s, p) ==
    IF EndsWith(s, p) THEN TrimEndMatches(SubSeq(s, 1, Len(s) - Len(p)), p) ELSE s

\* The grave accent character, U+0060, of the Markdown code fence.
Backtick == "U+0060"

Fence == <<Backtick, Backtick, Backtick>>
FenceJson == Fence \o <<"j", "s", "o", "n">>

\* extract_json without the trim that follows the removal of the markers
extract_json_without_second_trim(text) ==
    LET t == Trim(text) IN
    IF StartsWith(t, FenceJson)
    THEN TrimEndMatches(TrimStartMatches(t, FenceJson), Fence)
    ELSE IF StartsWith(t, Fence)
    THEN TrimEndMatches(TrimStartMatches(t, Fence), Fence)
    ELSE t

\* GeminiClient::extract_json
extract_json(text) ==
    LET t == Trim(text) IN
    IF StartsWith(t, FenceJson)
    THEN Trim(TrimEndMatches(TrimStartMatches(t, FenceJson), Fence))
    ELSE IF StartsWith(t, Fence)
    THEN Trim(TrimEndMatches(TrimStartMatches(t, Fence), Fence))
    ELSE t

----------------------------------------------------------------------------
(* Localized strings (src/ui/i18n.rs) *)

Languages == {"Chinese", "English"}

\* Language::display_name ("zh:Zhongwen" stands for the Chinese literal)
display_name(lang) == IF lang = "Chinese" THEN <<"zh:Zhongwen">> ELSE <<"English">>

\* const CHINESE: Strings (the fields App::update reads); found_issues holds
\* the "{}" placeholder as an atom of its own
CHINESE ==
    [ no_issues          |-> <<"zh:[OK] no grammar issues found!">>,
      found_issues       |-> <<"zh:found ", "{}", "zh: issues:">>,
      corrected_text     |-> <<"zh:corrected text:">>,
      enhanced_text      |-> <<"zh:enhanced text:">>,
      changes_made       |-> <<"zh:changes made:">>,
      enter_text_check   |-> <<"zh:please enter text to check">>,
      enter_text_enhance |-> <<"zh:please enter text to enhance">>,
      api_not_configured |-> <<"zh:API key not configured, go to settings">>,
      invalid_preset     |-> <<"zh:invalid style preset">>,
      error_prefix       |-> <<"zh:error">>,
      save_failed        |-> <<"zh:failed to save config">> ]

\* const ENGLISH: Strings
ENGLISH ==
    [ no_issues          |-> <<"[OK] No grammar issues found!">>,
      found_issues       |-> <<"Found ", "{}", " issue(s):">>,
      corrected_text     |-> <<"Corrected text:">>,
      enhanced_text      |-> <<"Enhanced text:">>,
      changes_made       |-> <<"Changes made:">>,
      enter_text_check   |-> <<"Please enter some text to check">>,
      enter_text_enhance |-> <<"Please enter some text to enhance">>,
      api_not_configured |-> <<"API key not configured. Go to Settings.">>,
      invalid_preset     |-> <<"Invalid preset selected">>,
      error_prefix       |-> <<"Error">>,
      save_failed        |-> <<"Failed to save config">> ]

\* Language::strings
strings(lang) == IF lang = "Chinese" THEN CHINESE ELSE ENGLISH

\* The decimal digits
Digits == <<"0", "1", "2", "3", "4", "5", "6", "7", "8", "9">>

\* usize::to_string: the decimal digits, the most significant first
RECURSIVE to_string(_)
to_string(n) ==
    IF n < 10 THEN <<Digits[n + 1]>>
    ELSE to_string(n \div 10) \o <<Digits[(n % 10) + 1]>>

\* str::replace("{}", with)
RECURSIVE replace_placeholder(_, _)
replace_placeholder(s, with) ==
    IF s = <<>> THEN <<>>
    ELSE (IF Head(s) = "{}" THEN with ELSE <<Head(s)>>)
         \o replace_placeholder(Tail(s), with)

----------------------------------------------------------------------------
(* Results and their JSON documents (src/api/gemini.rs) *)

\* A GrammarIssue the remote model may report
IssueA ==
    [ original    |-> <<"teh">>,
      corrected   |-> <<"the">>,
      explanation |-> <<"misspelled word">>,
      rule        |-> <<"spelling">> ]

\* CheckResult values; summary is #[serde(default)] Option<String>
CheckNoIssues ==
    [ issues |-> <<>>, corrected_text |-> <<"Hello world.">>, summary |-> None ]
CheckOneIssue ==
    [ issues |-> <<IssueA>>, corrected_text |-> <<"the cat">>,
      summary |-> Some(<<"one issue">>) ]

\* EnhanceResult value
EnhanceOneChange ==
    [ enhanced_text |-> <<"Good day.">>, changes_made |-> <<<<"more formal">>>> ]

\* JSON documents, each one atom
JsonCheckNoIssues == "{\"issues\":[],\"corrected_text\":\"Hello world.\"}"
JsonCheckOneIssue == "{\"issues\":[IssueA],\"corrected_text\":\"the cat\",\"summary\":\"one issue\"}"
JsonEnhanceOneChange == "{\"enhanced_text\":\"Good day.\",\"changes_made\":[\"more formal\"]}"
JsonMalformed == "{\"issues\": oops"

\* serde_json::from_str::<CheckResult>: the document must have the issues and
\* corrected_text fields
parse_check_result(json_str) ==
    CASE json_str = <<JsonCheckNoIssues>> -> Ok(CheckNoIssues)
      [] json_str = <<JsonCheckOneIssue>> -> Ok(CheckOneIssue)
      [] OTHER -> Err(<<"Failed to parse JSON">>)

\* serde_json::from_str::<EnhanceResult>
parse_enhance_result(json_str) ==
    CASE json_str = <<JsonEnhanceOneChange>> -> Ok(EnhanceOneChange)
      [] OTHER -> Err(<<"Failed to parse JSON">>)

----------------------------------------------------------------------------
(* The remote endpoint's answer and the client pipeline (src/api/gemini.rs) *)

\* StatusCode::is_success
is_success(status) == 200 <= status /\ status <= 299

\* Display of StatusCode
status_text(status) ==
    CASE status = 200 -> <<"200 OK">>
      [] status = 429 -> <<"429 Too Many Requests">>
      [] status = 500 -> <<"500 Internal Server Error">>
      [] OTHER -> <<"status">>

\* An answer of the transport: sent is FALSE when the call could not complete;
\* body_text is the body read as text (None when unreadable); envelope is the
\* body decoded as GeminiResponse (None when it does not decode), a sequence
\* of candidates, each the sequence of the texts of its content parts.
Answer(sent, status, body_text, envelope) ==
    [sent |-> sent, status |-> status, body_text |-> body_text, envelope |-> envelope]

Fenced(open, doc) == open \o <<"\n", doc, "\n">> \o Fence

AnswerTransportError == Answer(FALSE, 0, None, None)
AnswerHttp500 == Answer(TRUE, 500, Some(<<"overloaded">>), None)
AnswerHttp429Unreadable == Answer(TRUE, 429, None, None)
AnswerBadEnvelope == Answer(TRUE, 200, Some(<<"<html>">>), None)
AnswerNoCandidates == Answer(TRUE, 200, None, Some(<<>>))
AnswerNoParts == Answer(TRUE, 200, None, Some(<< <<>>, <<<<JsonCheckNoIssues>>>> >>))
AnswerMalformed == Answer(TRUE, 200, None, Some(<< <<<<JsonMalformed>>>> >>))
AnswerCheckPlain == Answer(TRUE, 200, None, Some(<< <<<<JsonCheckNoIssues>>>> >>))
AnswerCheckFenced ==
    Answer(TRUE, 200, None,
           Some(<< << Fenced(FenceJson, JsonCheckOneIssue), <<JsonMalformed>> >>,
                   << <<JsonCheckNoIssues>> >> >>))
AnswerEnhanceFenced ==
    Answer(TRUE, 200, None, Some(<< << <<" ">> \o Fenced(Fence, JsonEnhanceOneChange) >> >>))

\* Every answer the model knows
Answers ==
    { AnswerTransportError, AnswerHttp500, AnswerHttp429Unreadable, AnswerBadEnvelope,
      AnswerNoCandidates, AnswerNoParts, AnswerMalformed, AnswerCheckPlain,
      AnswerCheckFenced, AnswerEnhanceFenced }

\* The answers the endpoint gives in the runs of the whole application: each
\* is a success for one kind of request and a failure for the other
MainAnswers == { AnswerCheckPlain, AnswerEnhanceFenced }

\* send_request that decodes the body whatever the status
send_request_ignoring_status(answer) ==
    IF ~answer.sent
    THEN Err(<<"Failed to send request to Gemini API">>)
    ELSE IF ~IsSome(answer.envelope)
    THEN Err(<<"Failed to parse Gemini response">>)
    ELSE Ok(Unwrap(answer.envelope))

\* GeminiClient::send_request
send_request(answer) ==
    IF ~answer.sent
    THEN Err(<<"Failed to send request to Gemini API">>)
    ELSE IF ~is_success(answer.status)
    THEN Err(<<"Gemini API error (">> \o status_text(answer.status) \o <<"): ">>
             \o (IF IsSome(answer.body_text) THEN Unwrap(answer.body_text) ELSE <<>>))
    ELSE IF ~IsSome(answer.envelope)
    THEN Err(<<"Failed to parse Gemini response">>)
    ELSE Ok(Unwrap(answer.envelope))

\* The text of the last part of the last candidate
first_text_of_last(response) ==
    IF Len(response) = 0 THEN Err(<<"No candidates returned">>)
    ELSE IF Len(response[Len(response)]) = 0 THEN Err(<<"No parts returned">>)
    ELSE Ok(response[Len(response)][Len(response[Len(response)])])

\* The text of the first part of the first candidate that has parts
first_text_skipping_empty(response) ==
    IF Len(response) = 0 THEN Err(<<"No candidates returned">>)
    ELSE LET with_parts == SelectSeq(response, LAMBDA candidate : Len(candidate) > 0) IN
         IF Len(with_parts) = 0 THEN Err(<<"No parts returned">>)
         ELSE Ok(with_parts[1][1])

\* candidates.first()...parts.first()...text.clone()
first_text(response) ==
    IF Len(response) = 0 THEN Err(<<"No candidates returned">>)
    ELSE IF Len(response[1]) = 0 THEN Err(<<"No parts returned">>)
    ELSE Ok(response[1][1])

\* check_grammar that takes an envelope without candidates or parts for an
\* empty result instead of failing
check_grammar_default_on_empty(answer) ==
    LET response == send_request(answer) IN
    IF ~response.ok THEN Err(response.err)
    ELSE LET text_response == first_text(response.val) IN
         IF ~text_response.ok THEN Ok(CheckNoIssues)
         ELSE parse_check_result(extract_json(text_response.val))

\* GeminiClient::check_grammar, after the request is built
check_grammar(answer) ==
    LET response == send_request(answer) IN
    IF ~response.ok THEN Err(response.err)
    ELSE LET text_response == first_text(response.val) IN
         IF ~text_response.ok THEN Err(text_response.err)
         ELSE parse_check_result(extract_json(text_response.val))

\* GeminiClient::enhance_text, after the request is built
enhance_text(answer) ==
    LET response == send_request(answer) IN
    IF ~response.ok THEN Err(response.err)
    ELSE LET text_response == first_text(response.val) IN
         IF ~text_response.ok THEN Err(text_response.err)
         ELSE parse_enhance_result(extract_json(text_response.val))

----------------------------------------------------------------------------
(* The prompts (src/api/gemini.rs): the pieces of the format! templates are *)
(* atoms, the arguments are put between them as they are                    *)

\* The check prompt with the text trimmed
check_grammar_prompt_trimmed(text, lang) ==
    <<"Please act as a professional grammar checker. Check the following text for grammar, spelling, and punctuation errors.\nThe user's interface language is ">>
    \o lang \o <<". Assessment and explanations MUST BE in ">>
    \o lang \o <<".\n\nFor each issue found:\n1.  Identify the original text.\n2.  Provide the corrected text.\n3.  Explain why it is an error (concise explanation in ">>
    \o lang \o <<").\n4.  Cite the grammar rule involved (in ">>
    \o lang \o <<").\n\nReturn the result in strict JSON format matching this structure:\n{\n  \"issues\": [\n    {\n      \"original\": \"substring with error\",\n      \"corrected\": \"corrected substring\",\n      \"explanation\": \"explanation in ">>
    \o lang \o <<"\",\n      \"rule\": \"grammar rule in ">>
    \o lang \o <<"\"\n    }\n  ],\n  \"corrected_text\": \"the full text with all corrections applied\"\n}\n\nIf there are no errors, return an empty \"issues\" list.\n\nText to check:\n">>
    \o Trim(text)

\* The prompt of GeminiClient::check_grammar: format!(.., lang x 6, text)
check_grammar_prompt(text, lang) ==
    <<"Please act as a professional grammar checker. Check the following text for grammar, spelling, and punctuation errors.\nThe user's interface language is ">>
    \o lang \o <<". Assessment and explanations MUST BE in ">>
    \o lang \o <<".\n\nFor each issue found:\n1.  Identify the original text.\n2.  Provide the corrected text.\n3.  Explain why it is an error (concise explanation in ">>
    \o lang \o <<").\n4.  Cite the grammar rule involved (in ">>
    \o lang \o <<").\n\nReturn the result in strict JSON format matching this structure:\n{\n  \"issues\": [\n    {\n      \"original\": \"substring with error\",\n      \"corrected\": \"corrected substring\",\n      \"explanation\": \"explanation in ">>
    \o lang \o <<"\",\n      \"rule\": \"grammar rule in ">>
    \o lang \o <<"\"\n    }\n  ],\n  \"corrected_text\": \"the full text with all corrections applied\"\n}\n\nIf there are no errors, return an empty \"issues\" list.\n\nText to check:\n">>
    \o text

\* The prompt of GeminiClient::enhance_text:
\* format!(.., preset.name, preset.instructions, lang x 5, text)
enhance_text_prompt(text, preset, lang) ==
    <<"Please act as a professional writing editor. Enhance the following text to match the style: \"">>
    \o preset.name \o <<"\".\nDescription of style: ">>
    \o preset.instructions \o <<".\nThe user's interface language is ">>
    \o lang \o <<". Explanations MUST BE in ">>
    \o lang \o <<".\n\nAnalyze the text and rewrite it to better fit the requested style.\nList the specific changes you made and explain why (in ">>
    \o lang \o <<").\n\nReturn the result in strict JSON format matching this structure:\n{\n  \"enhanced_text\": \"the rewritten text\",\n  \"changes_made\": [\n    \"Change 1: explanation in ">>
    \o lang \o <<"\",\n    \"Change 2: explanation in ">>
    \o lang \o <<"\"\n  ]\n}\n\nText to enhance:\n">>
    \o text

----------------------------------------------------------------------------
(* Presets (src/core/presets.rs) *)

StylePreset(name, tone, formality, instructions) ==
    [name |-> name, tone |-> tone, formality |-> formality, instructions |-> instructions]

\* PresetManager::new: the built-in presets, by key
BuiltinPresets ==
    [ k \in {"casual", "business", "academic", "creative"} |->
        CASE k = "casual" ->
               StylePreset(<<"Casual">>, <<"friendly, conversational">>, <<"informal">>,
                   <<"Use simple words, contractions are okay, keep it natural and relaxed">>)
          [] k = "business" ->
               StylePreset(<<"Business">>, <<"professional, polite">>, <<"formal">>,
                   <<"Clear and concise, avoid slang, maintain professional courtesy">>)
          [] k = "academic" ->
               StylePreset(<<"Academic">>, <<"objective, analytical">>, <<"highly formal">>,
                   <<"Use precise terminology, passive voice acceptable, maintain scholarly tone">>)
          [] k = "creative" ->
               StylePreset(<<"Creative">>, <<"expressive, vivid">>, <<"flexible">>,
                   <<"Encourage creativity, use varied sentence structures, be engaging">>) ]

\* A presets.toml: exists, readable (read_to_string succeeds) and parsed (the
\* presets table toml::from_str yields, None when the file does not parse)
PresetsFile(exists, readable, parsed) ==
    [exists |-> exists, readable |-> readable, parsed |-> parsed]

CustomPresets ==
    [ k \in {"casual", "pirate"} |->
        IF k = "casual"
        THEN StylePreset(<<"Laid back">>, <<"chatty">>, <<"informal">>, <<"Write like a friend">>)
        ELSE StylePreset(<<"Pirate">>, <<"salty">>, <<"informal">>, <<"Talk like a pirate">>) ]

FileMissing == PresetsFile(FALSE, FALSE, None)
FileUnreadable == PresetsFile(TRUE, FALSE, None)
FileUnparsable == PresetsFile(TRUE, TRUE, None)
FileCustom == PresetsFile(TRUE, TRUE, Some(CustomPresets))

\* A merge in which the entries already present win
extend_keeping_existing(presets, more) ==
    [ k \in (DOMAIN presets) \cup (DOMAIN more) |->
        IF k \in DOMAIN presets THEN presets[k] ELSE more[k] ]

\* HashMap::extend
extend(presets, more) ==
    [ k \in (DOMAIN presets) \cup (DOMAIN more) |->
        IF k \in DOMAIN more THEN more[k] ELSE presets[k] ]

\* A load that takes a missing file for a file it failed to read
load_custom_presets_missing_is_error(presets, file) ==
    IF ~file.exists \/ ~file.readable
    THEN [result |-> Err(<<"Failed to read presets file">>), presets |-> presets]
    ELSE IF ~IsSome(file.parsed)
    THEN [result |-> Err(<<"Failed to parse presets file">>), presets |-> presets]
    ELSE [result |-> Ok(<<>>), presets |-> extend(presets, Unwrap(file.parsed))]

\* PresetManager::load_custom_presets: the Result and the presets afterwards
load_custom_presets(presets, file) ==
    IF ~file.exists THEN [result |-> Ok(<<>>), presets |-> presets]
    ELSE IF ~file.readable
    THEN [result |-> Err(<<"Failed to read presets file">>), presets |-> presets]
    ELSE IF ~IsSome(file.parsed)
    THEN [result |-> Err(<<"Failed to parse presets file">>), presets |-> presets]
    ELSE [result |-> Ok(<<>>), presets |-> extend(presets, Unwrap(file.parsed))]

\* A lookup that falls back to the casual preset for an unknown key
get_or_casual(presets, key) ==
    IF key \in DOMAIN presets THEN Some(presets[key]) ELSE Some(presets["casual"])

\* PresetManager::get
get(presets, key) == IF key \in DOMAIN presets THEN Some(presets[key]) ELSE None

\* PresetManager::keys
keys(presets) == DOMAIN presets

----------------------------------------------------------------------------
(* Bounds and the inputs the environment may supply *)

\* Network requests dispatched in one run
MaxRequests == 2

\* Texts typed, pasted or given on the command line
Texts == { <<>>, <<" ">>, <<"a">> }

\* Credentials typed or found in the configuration file
Keys == { <<>>, <<"key-1">> }

\* preferences.default_preset values found in the configuration file
ConfigPresets == {"casual", "pirate"}

\* preferences.language values found in the configuration file
ConfigLanguages == {"english", "chinese", "klingon"}

\* presets.toml at startup
StartupFiles == {FileMissing}

\* Preset keys the user picks from the pick list
PickedPresets == {"casual"}

\* AppFlags values
AppFlags ==
    [ initial_text : {None, Some(<<"a">>), Some(<<" ">>)},
      auto_check : BOOLEAN, auto_enhance : BOOLEAN,
      check_clipboard : BOOLEAN, enhance_clipboard : BOOLEAN ]

\* Outcomes of reading the clipboard: the text, or None when it cannot be read
ClipboardReads == {None} \cup {Some(t) : t \in Texts}

\* Outcomes of save_config: Ok, or the error's text
SaveOutcomes == {Ok(<<>>), Err(<<"Failed to write config file">>)}

----------------------------------------------------------------------------
(* App::new *)

\* The views the user navigates to (View::Help offers nothing but navigation)
NavTargets == {"Main", "Settings"}

\* GeminiClient::new
GeminiClient(api_key) == [api_key |-> api_key]

\* The Task of an App::new that tests auto_enhance before auto_check
new_task_enhance_first(flags) ==
    IF IsSome(flags.initial_text)
    THEN (IF flags.auto_enhance THEN Some("EnhanceText")
          ELSE IF flags.auto_check THEN Some("CheckGrammar")
          ELSE None)
    ELSE IF flags.check_clipboard THEN Some("PasteAndCheck")
    ELSE IF flags.enhance_clipboard THEN Some("PasteAndEnhance")
    ELSE None

\* The Task App::new returns: the message it will deliver, if any
new_task(flags) ==
    IF IsSome(flags.initial_text)
    THEN (IF flags.auto_check THEN Some("CheckGrammar")
          ELSE IF flags.auto_enhance THEN Some("EnhanceText")
          ELSE None)
    ELSE IF flags.check_clipboard THEN Some("PasteAndCheck")
    ELSE IF flags.enhance_clipboard THEN Some("PasteAndEnhance")
    ELSE None

\* App::new with the configuration load_config().unwrap_or_default() yields:
\* the App it returns and the Task it returns
AppNew(flags, key, default_preset, cfg_language, file) ==
    /\ config_key = key
    /\ gemini_client = (IF key # <<>> THEN Some(GeminiClient(key)) ELSE None)
    /\ preset_manager = load_custom_presets(BuiltinPresets, file).presets
    /\ language = (IF cfg_language = "english" THEN "English" ELSE "Chinese")
    /\ current_view =
         (IF flags.check_clipboard \/ flags.enhance_clipboard THEN "Popup" ELSE "Main")
    /\ selected_preset = default_preset
    /\ api_key_input = key
    /\ input_content =
         (IF IsSome(flags.initial_text) THEN Unwrap(flags.initial_text) ELSE <<>>)
    /\ result_text = <<>>
    /\ is_loading = FALSE
    /\ error_message = None
    /\ task = new_task(flags)
    /\ outstanding = <<>>
    /\ dispatched = 0
    /\ completed = 0

\* App::new, no call of a function being under observation
New(flags, key, default_preset, cfg_language, file) ==
    /\ AppNew(flags, key, default_preset, cfg_language, file)
    /\ call = None

Init ==
    \E flags \in AppFlags, key \in Keys, default_preset \in ConfigPresets,
       cfg_language \in ConfigLanguages, file \in StartupFiles :
        New(flags, key, default_preset, cfg_language, file)

----------------------------------------------------------------------------
(* App::update *)

\* self.s()
s == strings(language)

\* text.is_empty(), without the trim
is_empty_untrimmed(text) == text = <<>>

\* text.trim().is_empty()
is_blank(text) == Trim(text) = <<>>

\* format!("{}{}", prefix, e), without the separator
prefixed_without_separator(prefix, e) == prefix \o e

\* format!("{}: {}", prefix, e)
prefixed(prefix, e) == prefix \o <<": ">> \o e

\* The parameters the async block of a Task::perform captures
Request(kind, text, lang, preset, client) ==
    [kind |-> kind, text |-> text, lang |-> lang, preset |-> preset, client |-> client]

\* A rejecting branch that also turns the loading flag off
reject_stops_loading(message) ==
    /\ error_message' = Some(message)
    /\ is_loading' = FALSE
    /\ UNCHANGED <<outstanding, dispatched>>

\* The rejecting branches: self.error_message = Some(..); Task::none()
reject(message) ==
    /\ error_message' = Some(message)
    /\ UNCHANGED <<is_loading, outstanding, dispatched>>

\* dispatch guarded by the one is_loading flag, which would make a request of
\* one kind wait for the other kind's completion
dispatch_unless_loading(request) ==
    /\ ~is_loading
    /\ dispatched < MaxRequests
    /\ is_loading' = TRUE
    /\ error_message' = None
    /\ outstanding' = Append(outstanding, request)
    /\ dispatched' = dispatched + 1

\* dispatch that forgets self.error_message = None
dispatch_keeps_error(request) ==
    /\ dispatched < MaxRequests
    /\ is_loading' = TRUE
    /\ UNCHANGED error_message
    /\ outstanding' = Append(outstanding, request)
    /\ dispatched' = dispatched + 1

\* dispatch that spawns the network task twice
dispatch_twice(request) ==
    /\ dispatched < MaxRequests
    /\ is_loading' = TRUE
    /\ error_message' = None
    /\ outstanding' = outstanding \o <<request, request>>
    /\ dispatched' = dispatched + 1

\* The accepting branch: is_loading, error_message, Task::perform(..)
dispatch(request) ==
    /\ dispatched < MaxRequests
    /\ is_loading' = TRUE
    /\ error_message' = None
    /\ outstanding' = Append(outstanding, request)
    /\ dispatched' = dispatched + 1

\* Message::CheckGrammar with the blank-input test before the client test
update_CheckGrammar_blank_first ==
    /\ IF is_blank(input_content)
       THEN reject(s.enter_text_check)
       ELSE IF IsSome(gemini_client)
       THEN dispatch(Request("Check", input_content, display_name(language), None,
                             Unwrap(gemini_client)))
       ELSE reject(s.api_not_configured)
    /\ UNCHANGED <<gemini_client, config_key, api_key_input, preset_manager, current_view,
                   input_content, result_text, selected_preset, language, completed>>

\* Message::CheckGrammar
update_CheckGrammar ==
    /\ IF IsSome(gemini_client)
       THEN LET text == input_content IN
            IF is_blank(text)
            THEN reject(s.enter_text_check)
            ELSE dispatch(Request("Check", text, display_name(language), None,
                                  Unwrap(gemini_client)))
       ELSE reject(s.api_not_configured)
    /\ UNCHANGED <<gemini_client, config_key, api_key_input, preset_manager, current_view,
                   input_content, result_text, selected_preset, language, completed>>

\* Message::EnhanceText with the preset looked up before the text is tested
update_EnhanceText_preset_first ==
    /\ IF IsSome(gemini_client)
       THEN LET text == input_content
                preset == get(preset_manager, selected_preset) IN
            IF ~IsSome(preset)
            THEN reject(s.invalid_preset)
            ELSE IF is_blank(text)
            THEN reject(s.enter_text_enhance)
            ELSE dispatch(Request("Enhance", text, display_name(language), preset,
                                  Unwrap(gemini_client)))
       ELSE reject(s.api_not_configured)
    /\ UNCHANGED <<gemini_client, config_key, api_key_input, preset_manager, current_view,
                   input_content, result_text, selected_preset, language, completed>>

\* Message::EnhanceText
update_EnhanceText ==
    /\ IF IsSome(gemini_client)
       THEN LET text == input_content IN
            IF is_blank(text)
            THEN reject(s.enter_text_enhance)
            ELSE LET preset == get(preset_manager, selected_preset) IN
                 IF IsSome(preset)
                 THEN dispatch(Request("Enhance", text, display_name(language), preset,
                                       Unwrap(gemini_client)))
                 ELSE reject(s.invalid_preset)
       ELSE reject(s.api_not_configured)
    /\ UNCHANGED <<gemini_client, config_key, api_key_input, preset_manager, current_view,
                   input_content, result_text, selected_preset, language, completed>>

\* The blocks numbered from 0, as enumerate() counts
RECURSIVE issue_blocks_from_zero(_, _)
issue_blocks_from_zero(issues, i) ==
    IF i > Len(issues) THEN <<>>
    ELSE to_string(i - 1) \o <<". \"">> \o issues[i].original \o <<"\" -> \"">>
         \o issues[i].corrected \o <<"\"\n   ">> \o issues[i].explanation
         \o <<" (">> \o issues[i].rule \o <<")\n\n">>
         \o issue_blocks_from_zero(issues, i + 1)

\* The numbered blocks of the issues from the i-th on
RECURSIVE issue_blocks(_, _)
issue_blocks(issues, i) ==
    IF i > Len(issues) THEN <<>>
    ELSE to_string(i) \o <<". \"">> \o issues[i].original \o <<"\" -> \"">>
         \o issues[i].corrected \o <<"\"\n   ">> \o issues[i].explanation
         \o <<" (">> \o issues[i].rule \o <<")\n\n">>
         \o issue_blocks(issues, i + 1)

\* The output string of the Ok branch of Message::CheckComplete
render_check(check_result, str) ==
    (IF Len(check_result.issues) = 0
     THEN str.no_issues \o <<"\n\n">>
     ELSE replace_placeholder(str.found_issues, to_string(Len(check_result.issues)))
          \o <<"\n\n">> \o issue_blocks(check_result.issues, 1))
    \o <<"---\n">> \o str.corrected_text \o <<"\n\n">> \o check_result.corrected_text

\* The bulleted lines of the changes from the i-th on
RECURSIVE change_lines(_, _)
change_lines(changes, i) ==
    IF i > Len(changes) THEN <<>>
    ELSE <<"* ">> \o changes[i] \o <<"\n">> \o change_lines(changes, i + 1)

\* The output string of the Ok branch of Message::EnhanceComplete
render_enhance(enhance_result, str) ==
    str.enhanced_text \o <<"\n\n">> \o enhance_result.enhanced_text \o <<"\n\n---\n">>
    \o str.changes_made \o <<"\n\n">> \o change_lines(enhance_result.changes_made, 1)

\* Message::CheckComplete that turns loading off in the Ok branch only
update_CheckComplete_err_keeps_loading(result) ==
    /\ IF result.ok
       THEN /\ is_loading' = FALSE
            /\ result_text' = render_check(result.val, s)
            /\ UNCHANGED error_message
       ELSE /\ error_message' = Some(prefixed(s.error_prefix, result.err))
            /\ UNCHANGED <<result_text, is_loading>>
    /\ UNCHANGED <<gemini_client, config_key, api_key_input, preset_manager, current_view,
                   input_content, selected_preset, language, dispatched>>

\* Message::CheckComplete(result)
update_CheckComplete(result) ==
    /\ is_loading' = FALSE
    /\ IF result.ok
       THEN /\ result_text' = render_check(result.val, s)
            /\ UNCHANGED error_message
       ELSE /\ error_message' = Some(prefixed(s.error_prefix, result.err))
            /\ UNCHANGED result_text
    /\ UNCHANGED <<gemini_client, config_key, api_key_input, preset_manager, current_view,
                   input_content, selected_preset, language, dispatched>>

\* Message::EnhanceComplete(result)
update_EnhanceComplete(result) ==
    /\ is_loading' = FALSE
    /\ IF result.ok
       THEN /\ result_text' = render_enhance(result.val, s)
            /\ UNCHANGED error_message
       ELSE /\ error_message' = Some(prefixed(s.error_prefix, result.err))
            /\ UNCHANGED result_text
    /\ UNCHANGED <<gemini_client, config_key, api_key_input, preset_manager, current_view,
                   input_content, selected_preset, language, dispatched>>

\* Message::NavigateTo(view)
update_NavigateTo(view) ==
    /\ current_view' = view
    /\ UNCHANGED <<gemini_client, config_key, api_key_input, preset_manager, input_content,
                   result_text, selected_preset, is_loading, error_message, language,
                   outstanding, dispatched, completed>>

\* Message::InputChanged whose text the requests in flight share
update_InputChanged_shared(text) ==
    /\ input_content' = text
    /\ outstanding' = [ i \in 1..Len(outstanding) |-> [outstanding[i] EXCEPT !.text = text] ]
    /\ UNCHANGED <<gemini_client, config_key, api_key_input, preset_manager, current_view,
                   result_text, selected_preset, is_loading, error_message, language,
                   dispatched, completed>>

\* Message::InputChanged(action): the editor performs the action, which leaves text
update_InputChanged(text) ==
    /\ input_content' = text
    /\ UNCHANGED <<gemini_client, config_key, api_key_input, preset_manager, current_view,
                   result_text, selected_preset, is_loading, error_message, language,
                   outstanding, dispatched, completed>>

\* Message::PresetSelected(preset)
update_PresetSelected(preset) ==
    /\ selected_preset' = preset
    /\ UNCHANGED <<gemini_client, config_key, api_key_input, preset_manager, current_view,
                   input_content, result_text, is_loading, error_message, language,
                   outstanding, dispatched, completed>>

\* Message::PasteFromClipboard, the clipboard read yielding read
update_PasteFromClipboard(read) ==
    /\ input_content' = (IF IsSome(read) THEN Unwrap(read) ELSE input_content)
    /\ UNCHANGED <<gemini_client, config_key, api_key_input, preset_manager, current_view,
                   result_text, selected_preset, is_loading, error_message, language,
                   outstanding, dispatched, completed>>

\* Message::ClearAll that also gives up the requests in flight
update_ClearAll_cancels ==
    /\ input_content' = <<>>
    /\ result_text' = <<>>
    /\ error_message' = None
    /\ is_loading' = FALSE
    /\ outstanding' = <<>>
    /\ UNCHANGED <<gemini_client, config_key, api_key_input, preset_manager, current_view,
                   selected_preset, language, dispatched, completed>>

\* Message::ClearAll
update_ClearAll ==
    /\ input_content' = <<>>
    /\ result_text' = <<>>
    /\ error_message' = None
    /\ UNCHANGED <<gemini_client, config_key, api_key_input, preset_manager, current_view,
                   selected_preset, is_loading, language, outstanding, dispatched,
                   completed>>

\* Message::ApiKeyInputChanged(key)
update_ApiKeyInputChanged(key) ==
    /\ api_key_input' = key
    /\ UNCHANGED <<gemini_client, config_key, preset_manager, current_view, input_content,
                   result_text, selected_preset, is_loading, error_message, language,
                   outstanding, dispatched, completed>>

\* Message::SaveApiKey, save_config yielding saved
update_SaveApiKey(saved) ==
    /\ config_key' = api_key_input
    /\ IF ~saved.ok
       THEN /\ error_message' = Some(prefixed(s.save_failed, saved.err))
            /\ UNCHANGED gemini_client
       ELSE /\ gemini_client' = Some(GeminiClient(api_key_input))
            /\ error_message' = None
    /\ UNCHANGED <<api_key_input, preset_manager, current_view, input_content, result_text,
                   selected_preset, is_loading, language, outstanding, dispatched,
                   completed>>

\* Message::LanguageChanged(lang); the result of save_config is dropped
update_LanguageChanged(lang) ==
    /\ language' = lang
    /\ UNCHANGED <<gemini_client, config_key, api_key_input, preset_manager, current_view,
                   input_content, result_text, selected_preset, is_loading, error_message,
                   outstanding, dispatched, completed>>

\* Message::PasteAndCheck, arboard and the wl-paste fallback yielding read;
\* the two error literals are Chinese in the source whatever the language
update_PasteAndCheck(read) ==
    /\ IF IsSome(read) /\ Unwrap(read) # <<>>
       THEN /\ input_content' = Unwrap(read)
            /\ task' = Some("CheckGrammar")
            /\ UNCHANGED error_message
       ELSE /\ error_message' =
                 (IF IsSome(read)
                  THEN Some(<<"zh:clipboard is empty">>)
                  ELSE Some(<<"zh:clipboard read failed: ">> \o <<"ContentNotAvailable">>))
            /\ task' = None
            /\ UNCHANGED input_content
    /\ UNCHANGED <<gemini_client, config_key, api_key_input, preset_manager, current_view,
                   result_text, selected_preset, is_loading, language, outstanding,
                   dispatched, completed>>

\* Message::PasteAndEnhance, the clipboard read yielding read
update_PasteAndEnhance(read) ==
    /\ IF IsSome(read)
       THEN /\ input_content' = Unwrap(read)
            /\ task' = Some("EnhanceText")
       ELSE /\ task' = None
            /\ UNCHANGED input_content
    /\ UNCHANGED <<gemini_client, config_key, api_key_input, preset_manager, current_view,
                   result_text, selected_preset, is_loading, error_message, language,
                   outstanding, dispatched, completed>>

----------------------------------------------------------------------------
(* The event loop: the messages the views offer (App::view), the messages   *)
(* of finished tasks, and the completions of the network tasks              *)

\* view_main, view_settings, view_help: the navigation bar
offers_navigation == current_view \in {"Main", "Settings", "Help"}

\* view_main, view_popup: the editor, the preset picker, the clear button
offers_editing == current_view \in {"Main", "Popup"}

\* view_main, view_popup: on_press_maybe of the two action buttons
offers_actions == current_view \in {"Main", "Popup"} /\ ~is_loading

UserNavigateTo ==
    /\ offers_navigation
    /\ \E view \in NavTargets : update_NavigateTo(view)
    /\ UNCHANGED <<task, call>>

UserInputChanged ==
    /\ offers_editing
    /\ \E text \in Texts : update_InputChanged(text)
    /\ UNCHANGED <<task, call>>

UserPresetSelected ==
    /\ offers_editing
    /\ \E preset \in keys(preset_manager) \cap PickedPresets : update_PresetSelected(preset)
    /\ UNCHANGED <<task, call>>

UserCheckGrammar ==
    /\ offers_actions
    /\ update_CheckGrammar
    /\ UNCHANGED <<task, call>>

UserEnhanceText ==
    /\ offers_actions
    /\ update_EnhanceText
    /\ UNCHANGED <<task, call>>

UserPasteFromClipboard ==
    /\ current_view = "Main"
    /\ \E read \in ClipboardReads : update_PasteFromClipboard(read)
    /\ UNCHANGED <<task, call>>

UserClearAll ==
    /\ offers_editing
    /\ update_ClearAll
    /\ UNCHANGED <<task, call>>

UserApiKeyInputChanged ==
    /\ current_view = "Settings"
    /\ \E key \in Keys : update_ApiKeyInputChanged(key)
    /\ UNCHANGED <<task, call>>

UserSaveApiKey ==
    /\ current_view = "Settings"
    /\ \E saved \in SaveOutcomes : update_SaveApiKey(saved)
    /\ UNCHANGED <<task, call>>

UserLanguageChanged ==
    /\ current_view = "Settings"
    /\ \E lang \in Languages : update_LanguageChanged(lang)
    /\ UNCHANGED <<task, call>>

\* Task::perform(async {}, |_| Message::CheckGrammar) delivers its message
TaskCheckGrammar ==
    /\ task = Some("CheckGrammar")
    /\ update_CheckGrammar
    /\ task' = None
    /\ UNCHANGED call

\* Task::perform(async {}, |_| Message::EnhanceText) delivers its message
TaskEnhanceText ==
    /\ task = Some("EnhanceText")
    /\ update_EnhanceText
    /\ task' = None
    /\ UNCHANGED call

\* Task::perform(async {}, |_| Message::PasteAndCheck) delivers its message
TaskPasteAndCheck ==
    /\ task = Some("PasteAndCheck")
    /\ \E read \in ClipboardReads : update_PasteAndCheck(read)
    /\ UNCHANGED call

\* Task::perform(async {}, |_| Message::PasteAndEnhance) delivers its message
TaskPasteAndEnhance ==
    /\ task = Some("PasteAndEnhance")
    /\ \E read \in ClipboardReads : update_PasteAndEnhance(read)
    /\ UNCHANGED call

Remove(seq, i) == SubSeq(seq, 1, i - 1) \o SubSeq(seq, i + 1, Len(seq))

\* A check_grammar future finishes with one of the answers and its
\* Message::CheckComplete is handled
CheckCompletedWith(answers) ==
    \E i \in 1..Len(outstanding), answer \in answers :
        /\ outstanding[i].kind = "Check"
        /\ update_CheckComplete(check_grammar(answer))
        /\ outstanding' = Remove(outstanding, i)
        /\ completed' = completed + 1
        /\ UNCHANGED <<task, call>>

\* An enhance_text future finishes with one of the answers and its
\* Message::EnhanceComplete is handled
EnhanceCompletedWith(answers) ==
    \E i \in 1..Len(outstanding), answer \in answers :
        /\ outstanding[i].kind = "Enhance"
        /\ update_EnhanceComplete(enhance_text(answer))
        /\ outstanding' = Remove(outstanding, i)
        /\ completed' = completed + 1
        /\ UNCHANGED <<task, call>>

CheckCompleted == CheckCompletedWith(MainAnswers)

EnhanceCompleted == EnhanceCompletedWith(MainAnswers)

Next ==
    \/ UserNavigateTo
    \/ UserInputChanged
    \/ UserPresetSelected
    \/ UserCheckGrammar
    \/ UserEnhanceText
    \/ UserPasteFromClipboard
    \/ UserClearAll
    \/ UserApiKeyInputChanged
    \/ UserSaveApiKey
    \/ UserLanguageChanged
    \/ TaskCheckGrammar
    \/ TaskEnhanceText
    \/ TaskPasteAndCheck
    \/ TaskPasteAndEnhance
    \/ CheckCompleted
    \/ EnhanceCompleted

Spec == Init /\ [][Next]_vars

(* The runs in which the endpoint gives every answer of Answers: the
   application is started as "akkurate --check a" without auto-action races
   (a key is configured, the user edits, clears and presses the buttons) *)

CheckCompletedAny == CheckCompletedWith(Answers)

EnhanceCompletedAny == EnhanceCompletedWith(Answers)

InitAnswers ==
    \E cfg_language \in ConfigLanguages :
        New([initial_text |-> Some(<<"a">>), auto_check |-> FALSE, auto_enhance |-> FALSE,
             check_clipboard |-> FALSE, enhance_clipboard |-> FALSE],
            <<"key-1">>, "casual", cfg_language, FileMissing)

NextAnswers ==
    \/ UserInputChanged
    \/ UserClearAll
    \/ UserCheckGrammar
    \/ UserEnhanceText
    \/ CheckCompletedAny
    \/ EnhanceCompletedAny

SpecAnswers == InitAnswers /\ [][NextAnswers]_vars

(* The runs in which every spawned network task finishes: the runtime polls
   the future of Task::perform until it returns, and the future returns when
   the network call returns or fails *)

InitLive ==
    \E auto_check \in BOOLEAN, auto_enhance \in BOOLEAN, key \in Keys :
        New([initial_text |-> Some(<<"a">>), auto_check |-> auto_check,
             auto_enhance |-> auto_enhance, check_clipboard |-> FALSE,
             enhance_clipboard |-> FALSE],
            key, "casual", "english", FileMissing)

NextLive ==
    \/ UserNavigateTo
    \/ UserInputChanged
    \/ UserCheckGrammar
    \/ UserEnhanceText
    \/ UserClearAll
    \/ TaskCheckGrammar
    \/ TaskEnhanceText
    \/ CheckCompleted
    \/ EnhanceCompleted

SpecLive ==
    InitLive /\ [][NextLive]_vars /\ WF_vars(CheckCompleted) /\ WF_vars(EnhanceCompleted)

(* The runs of the start: main hands its flags to App::new, the runtime then
   delivers the message of the returned Task, and the network tasks finish;
   the user does nothing. The flags App::new was called with are kept in
   call. *)

InitStartup ==
    \E flags \in AppFlags, key \in Keys, default_preset \in ConfigPresets,
       cfg_language \in ConfigLanguages, file \in StartupFiles :
        /\ AppNew(flags, key, default_preset, cfg_language, file)
        /\ call = Some([function |-> "new", flags |-> flags])

NextStartup ==
    \/ TaskCheckGrammar
    \/ TaskEnhanceText
    \/ TaskPasteAndCheck
    \/ TaskPasteAndEnhance
    \/ CheckCompleted
    \/ EnhanceCompleted

SpecStartup == InitStartup /\ [][NextStartup]_vars

----------------------------------------------------------------------------
(* Calls of the program's functions on their own: the application stays as *)
(* App::new leaves it and call records the one call and what it returned   *)

app_vars == <<gemini_client, config_key, api_key_input, preset_manager, current_view,
              input_content, result_text, selected_preset, is_loading, error_message,
              language, task, outstanding, dispatched, completed>>

\* Response texts are put together from at most this many pieces
MaxPieces == 4

\* The pieces: the fence markers, a lone grave accent, white space, a JSON value
Pieces == { Fence, FenceJson, <<Backtick>>, <<" ">>, <<"\n">>, <<"[]">> }

\* The texts made of at most n pieces
RECURSIVE Strung(_)
Strung(n) ==
    IF n = 0 THEN {<<>>}
    ELSE LET shorter == Strung(n - 1) IN
         shorter \cup { text \o piece : text \in shorter, piece \in Pieces }

\* The payloads: texts without white space at either end that neither begin
\* nor end with a fence marker
Payloads ==
    { p \in Strung(MaxPieces) :
        /\ p = <<>> \/ (p[1] \notin Whitespace /\ p[Len(p)] \notin Whitespace)
        /\ ~(Len(p) >= 3 /\ SubSeq(p, 1, 3) = Fence)
        /\ ~(Len(p) >= 3 /\ SubSeq(p, Len(p) - 2, Len(p)) = Fence) }

\* The ways a response carries a payload: alone, within white space, within a
\* fence tagged json, within a bare fence
Alone(p) == p
Padded(p) == <<"\n", " ">> \o p \o <<" ", "\n">>
FencedJson(p) == FenceJson \o <<"\n">> \o p \o <<"\n">> \o Fence
FencedBare(p) == Fence \o <<"\n">> \o p \o <<"\n">> \o Fence

\* The response texts extract_json is called with
ResponseTexts ==
    Strung(MaxPieces)
        \cup { Padded(p) : p \in Payloads }
        \cup { FencedJson(p) : p \in Payloads }
        \cup { FencedBare(p) : p \in Payloads }

\* self.extract_json(&text_response)
Call_extract_json ==
    /\ call = None
    /\ \E text \in ResponseTexts :
         call' = Some([function |-> "extract_json", text |-> text,
                       returns |-> extract_json(text)])
    /\ UNCHANGED app_vars

\* An envelope holds at most this many candidates
MaxCandidates == 2

\* A candidate holds at most this many parts
MaxParts == 2

\* The sequences of at most n members of a set
RECURSIVE SeqsUpTo(_, _)
SeqsUpTo(set, n) ==
    IF n = 0 THEN {<<>>}
    ELSE LET shorter == SeqsUpTo(set, n - 1) IN
         shorter \cup { Append(seq, member) : seq \in shorter, member \in set }

\* The texts of the first part of the first candidate
FirstPartTexts ==
    { <<JsonCheckNoIssues>>, Padded(<<JsonCheckNoIssues>>),
      FencedJson(<<JsonCheckOneIssue>>), Padded(FencedBare(<<JsonCheckOneIssue>>)),
      FencedJson(<<JsonEnhanceOneChange>>), FencedBare(<<JsonEnhanceOneChange>>),
      <<JsonMalformed>>, <<>> }

\* The texts of the other parts
OtherPartTexts == { <<JsonCheckNoIssues>>, <<JsonMalformed>> }

\* The first candidates: no part, or a first part and other parts
FirstCandidates ==
    {<<>>} \cup { <<first>> \o others : first \in FirstPartTexts,
                                        others \in SeqsUpTo(OtherPartTexts, MaxParts - 1) }

\* The other candidates
OtherCandidates == { <<>>, <<<<JsonCheckNoIssues>>>>, <<<<JsonEnhanceOneChange>>>> }

\* The envelopes: no candidate, or a first candidate and other candidates
Envelopes ==
    {<<>>} \cup { <<first>> \o others : first \in FirstCandidates,
                                        others \in SeqsUpTo(OtherCandidates, MaxCandidates - 1) }

\* The answers the functions of the client are called with: the call fails,
\* or a success status with a body that decodes or does not, or another
\* status with a body that can be read or cannot and would decode or would not
ClientAnswers ==
    {AnswerTransportError}
        \cup { Answer(TRUE, 200, None, envelope) :
                 envelope \in {None} \cup { Some(e) : e \in Envelopes } }
        \cup { Answer(TRUE, status, body_text, envelope) :
                 status \in {429, 500},
                 body_text \in {None, Some(<<"overloaded">>)},
                 envelope \in {None, Some(<<>>), Some(<< <<<<JsonCheckNoIssues>>>> >>),
                               Some(<< <<<<JsonEnhanceOneChange>>>> >>)} }

\* self.send_request(request).await
Call_send_request ==
    /\ call = None
    /\ \E answer \in ClientAnswers :
         call' = Some([function |-> "send_request", answer |-> answer,
                       returns |-> send_request(answer)])
    /\ UNCHANGED app_vars

\* client.check_grammar(&text, &lang).await
Call_check_grammar ==
    /\ call = None
    /\ \E answer \in ClientAnswers :
         call' = Some([function |-> "check_grammar", answer |-> answer,
                       returns |-> check_grammar(answer)])
    /\ UNCHANGED app_vars

\* client.enhance_text(&text, &preset, &lang).await
Call_enhance_text ==
    /\ call = None
    /\ \E answer \in ClientAnswers :
         call' = Some([function |-> "enhance_text", answer |-> answer,
                       returns |-> enhance_text(answer)])
    /\ UNCHANGED app_vars

\* The keys a presets.toml may hold and the keys looked up
FileKeys == {"casual", "business", "pirate"}
LookupKeys == (DOMAIN BuiltinPresets) \cup FileKeys \cup {"ninja"}

\* The presets a presets.toml gives a key
FilePresets ==
    { StylePreset(<<"Laid back">>, <<"chatty">>, <<"informal">>, <<"Write like a friend">>),
      StylePreset(<<"Pirate">>, <<"salty">>, <<"informal">>, <<>>) }

\* The presets.toml files: missing, unreadable, not TOML, or a presets table
PresetsFiles ==
    { FileMissing, FileUnreadable, FileUnparsable }
        \cup { PresetsFile(TRUE, TRUE, Some(table)) :
                 table \in UNION { [ks -> FilePresets] : ks \in SUBSET FileKeys } }

\* preset_manager.load_custom_presets(&presets_path) on PresetManager::new()
Call_load_custom_presets ==
    /\ call = None
    /\ \E file \in PresetsFiles :
         call' = Some([function |-> "load_custom_presets", presets |-> BuiltinPresets,
                       file |-> file,
                       returns |-> load_custom_presets(BuiltinPresets, file)])
    /\ UNCHANGED app_vars

\* self.preset_manager.get(&self.selected_preset), before any load
\* (loaded is FALSE) or after the load of a file
Call_get ==
    /\ call = None
    /\ \E loaded \in BOOLEAN, file \in PresetsFiles, key \in LookupKeys :
         /\ ~loaded => file = FileMissing
         /\ call' = Some([function |-> "get", loaded |-> loaded, file |-> file, key |-> key,
                          returns |-> get(IF loaded
                                          THEN load_custom_presets(BuiltinPresets, file).presets
                                          ELSE BuiltinPresets,
                                          key)])
    /\ UNCHANGED app_vars

\* A text of a prompt holds at most this many characters
MaxTextLen == 3

\* The characters of the texts: white space, a quote, a backslash, a brace
\* pair, a letter
TextChars == { " ", "\n", "\"", "\\", "{}", "a" }

\* The texts the prompts are built for
PromptTexts == SeqsUpTo(TextChars, MaxTextLen)

\* The presets the enhance prompt is built for
PromptPresets ==
    { BuiltinPresets[k] : k \in DOMAIN BuiltinPresets } \cup FilePresets

\* The prompt client.check_grammar(&text, lang) builds
Call_check_grammar_prompt ==
    /\ call = None
    /\ \E text \in PromptTexts, lang \in Languages :
         call' = Some([function |-> "check_grammar_prompt", text |-> text,
                       lang |-> display_name(lang),
                       returns |-> check_grammar_prompt(text, display_name(lang))])
    /\ UNCHANGED app_vars

\* The prompt client.enhance_text(&text, &preset, lang) builds
Call_enhance_text_prompt ==
    /\ call = None
    /\ \E text \in PromptTexts, preset \in PromptPresets, lang \in Languages :
         call' = Some([function |-> "enhance_text_prompt", text |-> text,
                       preset |-> preset, lang |-> display_name(lang),
                       returns |-> enhance_text_prompt(text, preset, display_name(lang))])
    /\ UNCHANGED app_vars

\* A result holds at most this many issues or changes
MaxIssues == 3

\* The issues and the changes the remote model may report
IssueB ==
    [ original    |-> <<"me and him">>,
      corrected   |-> <<"he and I">>,
      explanation |-> <<"subject pronouns">>,
      rule        |-> <<"pronoun case">> ]
Changes == { <<"more formal">>, <<"shorter sentences">> }

\* The results whose completion is rendered
CheckResults ==
    [ issues : SeqsUpTo({IssueA, IssueB}, MaxIssues),
      corrected_text : { <<"the cat">> },
      summary : { None, Some(<<"one issue">>) } ]
EnhanceResults ==
    [ enhanced_text : { <<"Good day.">> }, changes_made : SeqsUpTo(Changes, MaxIssues) ]

\* The output of the Ok branch of Message::CheckComplete
Call_render_check ==
    /\ call = None
    /\ \E check_result \in CheckResults, lang \in Languages :
         call' = Some([function |-> "render_check", result |-> check_result, lang |-> lang,
                       returns |-> render_check(check_result, strings(lang))])
    /\ UNCHANGED app_vars

\* The output of the Ok branch of Message::EnhanceComplete
Call_render_enhance ==
    /\ call = None
    /\ \E enhance_result \in EnhanceResults, lang \in Languages :
         call' = Some([function |-> "render_enhance", result |-> enhance_result,
                       lang |-> lang,
                       returns |-> render_enhance(enhance_result, strings(lang))])
    /\ UNCHANGED app_vars

InitCalls ==
    New([initial_text |-> None, auto_check |-> FALSE, auto_enhance |-> FALSE,
         check_clipboard |-> FALSE, enhance_clipboard |-> FALSE],
        <<"key-1">>, "casual", "english", FileMissing)

NextCalls ==
    \/ Call_extract_json
    \/ Call_send_request
    \/ Call_check_grammar
    \/ Call_enhance_text
    \/ Call_load_custom_presets
    \/ Call_get
    \/ Call_check_grammar_prompt
    \/ Call_enhance_text_prompt
    \/ Call_render_check
    \/ Call_render_enhance

SpecCalls == InitCalls /\ [][NextCalls]_vars

----------------------------------------------------------------------------
(* What the claims speak of *)

\* The number of requests of a kind dispatched and not yet completed
Outstanding(kind) ==
    Cardinality({ i \in 1..Len(outstanding) : outstanding[i].kind = kind })

\* A text that is blank after trimming: it holds white space only
Blank(text) == \A i \in 1..Len(text) : text[i] \in Whitespace

\* A step in which App::update handles Message::CheckGrammar
HandlesCheckGrammar == UserCheckGrammar \/ TaskCheckGrammar

\* A step in which App::update handles Message::EnhanceText
HandlesEnhanceText == UserEnhanceText \/ TaskEnhanceText

\* A step in which App::update handles the Message::CheckComplete of answer
HandlesCheckComplete(answer) == CheckCompletedWith({answer})

\* A step in which App::update handles the Message::EnhanceComplete of answer
HandlesEnhanceComplete(answer) == EnhanceCompletedWith({answer})

----------------------------------------------------------------------------
\* C1: in every reachable state at most one check request and at most one
\* enhance request is dispatched and not yet completed.
C1_SingleFlight == Outstanding("Check") <= 1 /\ Outstanding("Enhance") <= 1

\* C2: a CheckGrammar handled while a check request is outstanding dispatches
\* nothing and leaves loading state, error message, result text and input
\* text as they were; likewise EnhanceText while an enhance request is
\* outstanding.
C2_SameKindNoOp ==
    [][ /\ (HandlesCheckGrammar /\ Outstanding("Check") > 0
              => UNCHANGED <<outstanding, dispatched, is_loading, error_message,
                             result_text, input_content>>)
        /\ (HandlesEnhanceText /\ Outstanding("Enhance") > 0
              => UNCHANGED <<outstanding, dispatched, is_loading, error_message,
                             result_text, input_content>>) ]_vars

\* C3: when requests of both kinds are outstanding and one of them completes,
\* the loading indication of the other stays on: handling CheckComplete
\* leaves is_loading set while an enhance request is outstanding, and
\* handling EnhanceComplete leaves it set while a check request is.
C3_KindScopedCompletion ==
    [][ /\ (CheckCompleted /\ Outstanding("Enhance") > 0 => is_loading')
        /\ (EnhanceCompleted /\ Outstanding("Check") > 0 => is_loading') ]_vars

\* The conditions under which Message::CheckGrammar is to be accepted
CheckAcceptable == IsSome(gemini_client) /\ ~Blank(input_content)

\* The conditions under which Message::EnhanceText is to be accepted
EnhanceAcceptable ==
    /\ IsSome(gemini_client)
    /\ ~Blank(input_content)
    /\ selected_preset \in DOMAIN preset_manager

\* C4, the state part: with a request outstanding, a delivered trigger of
\* the other kind that is acceptable can be handled at once, and so can the
\* messages the view offers and the completions; nothing waits for the
\* outstanding request.
C4_NothingWaits ==
    /\ (Outstanding("Check") > 0 /\ task = Some("EnhanceText") /\ EnhanceAcceptable
          /\ dispatched < MaxRequests => ENABLED TaskEnhanceText)
    /\ (Outstanding("Enhance") > 0 /\ task = Some("CheckGrammar") /\ CheckAcceptable
          /\ dispatched < MaxRequests => ENABLED TaskCheckGrammar)
    /\ (Len(outstanding) > 0 /\ offers_editing
          => ENABLED UserInputChanged /\ ENABLED UserClearAll)
    /\ (Len(outstanding) > 0 /\ offers_navigation => ENABLED UserNavigateTo)
    /\ (Len(outstanding) > 0 /\ current_view = "Settings"
          => ENABLED UserSaveApiKey /\ ENABLED UserLanguageChanged)

\* C4: while a check request is outstanding, an EnhanceText message with
\* non-blank input, a configured client and a resolvable preset is accepted
\* and dispatches an enhance request, and the other way round for
\* CheckGrammar while an enhance request is outstanding; no message waits for
\* the outstanding completion.
C4_IndependentKinds ==
    /\ []C4_NothingWaits
    /\ [][ /\ (HandlesEnhanceText /\ Outstanding("Check") > 0 /\ EnhanceAcceptable
                 => /\ Outstanding("Enhance")' = Outstanding("Enhance") + 1
                    /\ Outstanding("Check")' = Outstanding("Check")
                    /\ outstanding'[Len(outstanding')].kind = "Enhance")
           /\ (HandlesCheckGrammar /\ Outstanding("Enhance") > 0 /\ CheckAcceptable
                 => /\ Outstanding("Check")' = Outstanding("Check") + 1
                    /\ Outstanding("Enhance")' = Outstanding("Enhance")
                    /\ outstanding'[Len(outstanding')].kind = "Check") ]_vars

\* C4 witness: an enhance request was dispatched while a check request was
\* outstanding, and both are outstanding.
C4_Witness ==
    /\ Len(outstanding) = 2
    /\ outstanding[1].kind = "Check"
    /\ outstanding[2].kind = "Enhance"

\* C5: when CheckGrammar is handled with no check request outstanding, a
\* configured client and input that is not blank after trimming, the loading
\* state is set, exactly one check request is dispatched (carrying the input
\* text) and the error message is cleared; the same for EnhanceText with a
\* preset that resolves.
C5_AcceptedRequest ==
    [][ /\ (HandlesCheckGrammar /\ Outstanding("Check") = 0 /\ CheckAcceptable
              => /\ is_loading'
                 /\ Outstanding("Check")' = 1
                 /\ error_message' = None
                 /\ dispatched' = dispatched + 1
                 /\ Len(outstanding') = Len(outstanding) + 1
                 /\ SubSeq(outstanding', 1, Len(outstanding)) = outstanding
                 /\ outstanding'[Len(outstanding')].kind = "Check"
                 /\ outstanding'[Len(outstanding')].text = input_content)
        /\ (HandlesEnhanceText /\ Outstanding("Enhance") = 0 /\ EnhanceAcceptable
              => /\ is_loading'
                 /\ Outstanding("Enhance")' = 1
                 /\ error_message' = None
                 /\ dispatched' = dispatched + 1
                 /\ Len(outstanding') = Len(outstanding) + 1
                 /\ SubSeq(outstanding', 1, Len(outstanding)) = outstanding
                 /\ outstanding'[Len(outstanding')].kind = "Enhance"
                 /\ outstanding'[Len(outstanding')].text = input_content
                 /\ outstanding'[Len(outstanding')].preset
                      = Some(preset_manager[selected_preset])) ]_vars

\* C5 witness: an enhance request was accepted from the idle state: it is the
\* only request dispatched so far, loading is on and no error is shown.
C5_Witness ==
    /\ is_loading
    /\ dispatched = 1
    /\ Len(outstanding) = 1
    /\ outstanding[1].kind = "Enhance"
    /\ outstanding[1].text = input_content
    /\ error_message = None

\* C6 as claimed: whenever CheckGrammar (EnhanceText) is handled with input
\* that is blank after trimming, nothing is dispatched, the loading state
\* does not change and the error message is the enter-text message of that
\* operation.
C6_BlankInputAlways ==
    [][ /\ (HandlesCheckGrammar /\ Blank(input_content)
              => /\ error_message' = Some(s.enter_text_check)
                 /\ UNCHANGED <<outstanding, dispatched, is_loading>>)
        /\ (HandlesEnhanceText /\ Blank(input_content)
              => /\ error_message' = Some(s.enter_text_enhance)
                 /\ UNCHANGED <<outstanding, dispatched, is_loading>>) ]_vars

\* C6 as amended: whenever CheckGrammar (EnhanceText) is handled with a client
\* configured and input that is blank after trimming, nothing is dispatched,
\* the loading state does not change and the error message is the enter-text
\* message of that operation.
C6_BlankInputWithClient ==
    [][ /\ (HandlesCheckGrammar /\ IsSome(gemini_client) /\ Blank(input_content)
              => /\ error_message' = Some(s.enter_text_check)
                 /\ UNCHANGED <<outstanding, dispatched, is_loading>>)
        /\ (HandlesEnhanceText /\ IsSome(gemini_client) /\ Blank(input_content)
              => /\ error_message' = Some(s.enter_text_enhance)
                 /\ UNCHANGED <<outstanding, dispatched, is_loading>>) ]_vars

\* C6 witness: the enter-text message of a check is shown for an input of
\* white space only, a client being configured.
C6_Witness ==
    /\ error_message = Some(s.enter_text_check)
    /\ input_content = <<" ">>
    /\ IsSome(gemini_client)
    /\ dispatched = 0

\* C7: whenever CheckGrammar or EnhanceText is handled with no client
\* configured, nothing is dispatched, the loading state stays as it was and
\* the error message is the not-configured message.
C7_NotConfigured ==
    [][ (HandlesCheckGrammar \/ HandlesEnhanceText) /\ ~IsSome(gemini_client)
          => /\ error_message' = Some(s.api_not_configured)
             /\ UNCHANGED <<outstanding, dispatched, is_loading>> ]_vars

\* C7 witness: the not-configured message is shown, no client being
\* configured and the input being blank.
C7_Witness ==
    /\ error_message = Some(s.api_not_configured)
    /\ ~IsSome(gemini_client)
    /\ Blank(input_content)
    /\ dispatched = 0

\* C8: handling a successful completion turns loading off, replaces the
\* result text with the rendering of the result and clears the error
\* message, whatever error was shown before.
C8_SuccessClearsError ==
    [][ \A answer \in MainAnswers :
          /\ (HandlesCheckComplete(answer) /\ check_grammar(answer).ok
                => /\ ~is_loading'
                   /\ result_text' = render_check(check_grammar(answer).val, s)
                   /\ error_message' = None)
          /\ (HandlesEnhanceComplete(answer) /\ enhance_text(answer).ok
                => /\ ~is_loading'
                   /\ result_text' = render_enhance(enhance_text(answer).val, s)
                   /\ error_message' = None) ]_vars

\* C9: handling a failed completion turns loading off, sets the error
\* message to the localized error prefix, ": " and the failure's message,
\* and leaves the result text unchanged.
C9_FailureKeepsResult ==
    [][ \A answer \in MainAnswers :
          /\ (HandlesCheckComplete(answer) /\ ~check_grammar(answer).ok
                => /\ ~is_loading'
                   /\ error_message'
                        = Some(s.error_prefix \o <<": ">> \o check_grammar(answer).err)
                   /\ result_text' = result_text)
          /\ (HandlesEnhanceComplete(answer) /\ ~enhance_text(answer).ok
                => /\ ~is_loading'
                   /\ error_message'
                        = Some(s.error_prefix \o <<": ">> \o enhance_text(answer).err)
                   /\ result_text' = result_text) ]_vars

\* C9 witness: a failure is shown while the result of an earlier request is
\* still visible.
C9_Witness ==
    /\ error_message = Some(s.error_prefix \o <<": ", "Failed to parse JSON">>)
    /\ result_text # <<>>
    /\ completed = 2
    /\ ~is_loading

\* The ways an operation of a kind fails on an answer
TransportFailure(answer) == ~answer.sent
NonSuccessStatus(answer) == answer.sent /\ answer.status \notin 200..299
UndecodableEnvelope(answer) ==
    answer.sent /\ answer.status \in 200..299 /\ answer.envelope = None
Decoded(answer) == answer.sent /\ answer.status \in 200..299 /\ answer.envelope # None
EmptyCandidates(answer) == Decoded(answer) /\ Unwrap(answer.envelope) = <<>>
EmptyParts(answer) ==
    Decoded(answer) /\ Unwrap(answer.envelope) # <<>> /\ Unwrap(answer.envelope)[1] = <<>>
PayloadMismatch(kind, answer) ==
    /\ Decoded(answer)
    /\ Unwrap(answer.envelope) # <<>>
    /\ Unwrap(answer.envelope)[1] # <<>>
    /\ extract_json(Unwrap(answer.envelope)[1][1]) \notin
         (IF kind = "Check"
          THEN {<<JsonCheckNoIssues>>, <<JsonCheckOneIssue>>}
          ELSE {<<JsonEnhanceOneChange>>})
Fails(kind, answer) ==
    \/ TransportFailure(answer)
    \/ NonSuccessStatus(answer)
    \/ UndecodableEnvelope(answer)
    \/ EmptyCandidates(answer)
    \/ EmptyParts(answer)
    \/ PayloadMismatch(kind, answer)

\* What the user sees after a failure: a message that starts with the
\* localized error prefix and ": " and goes on
ShowsPrefixedError(error) ==
    /\ IsSome(error)
    /\ StartsWith(Unwrap(error), s.error_prefix \o <<": ">>)
    /\ Len(Unwrap(error)) > Len(s.error_prefix) + 1

\* C10: for every way an operation can fail (transport failure, non-success
\* status, undecodable envelope, empty candidates or parts, payload not of
\* the result's shape), handling its completion turns loading off, shows a
\* non-empty message with the localized error prefix and leaves the input
\* text as it was.
C10_EveryFailureRecoverable ==
    [][ \A answer \in Answers :
          /\ (HandlesCheckComplete(answer) /\ Fails("Check", answer)
                => /\ ~is_loading'
                   /\ ShowsPrefixedError(error_message')
                   /\ result_text' = result_text
                   /\ input_content' = input_content)
          /\ (HandlesEnhanceComplete(answer) /\ Fails("Enhance", answer)
                => /\ ~is_loading'
                   /\ ShowsPrefixedError(error_message')
                   /\ result_text' = result_text
                   /\ input_content' = input_content) ]_vars

\* C10 witness: the check of a non-blank input failed on an envelope without
\* candidates: the failure is shown, loading is off, the input is still there.
C10_Witness ==
    /\ error_message = Some(s.error_prefix \o <<": ", "No candidates returned">>)
    /\ ~is_loading
    /\ outstanding = <<>>
    /\ completed = 1
    /\ input_content = <<"a">>

\* The state ClearAll leaves: no input, no result, no error
Cleared == input_content = <<>> /\ result_text = <<>> /\ error_message = None

\* C11: handling ClearAll empties input text, result text and error message
\* and leaves the loading state and the outstanding requests as they were;
\* an outstanding request can still complete, and its completion handled in
\* the cleared state writes the result text (success) or the error message
\* (failure).
C11_ClearAllKeepsRequests ==
    /\ [](Cleared /\ Outstanding("Check") > 0 => ENABLED CheckCompleted)
    /\ [](Cleared /\ Outstanding("Enhance") > 0 => ENABLED EnhanceCompleted)
    /\ [][ UserClearAll
             => /\ Cleared'
                /\ UNCHANGED <<is_loading, outstanding, dispatched, completed>> ]_vars
    /\ [][ Cleared /\ completed' # completed
             => \A answer \in MainAnswers :
                  /\ (HandlesCheckComplete(answer)
                        => /\ ~is_loading'
                           /\ IF check_grammar(answer).ok
                              THEN result_text' # <<>> /\ error_message' = None
                              ELSE result_text' = <<>> /\ error_message' # None)
                  /\ (HandlesEnhanceComplete(answer)
                        => /\ ~is_loading'
                           /\ IF enhance_text(answer).ok
                              THEN result_text' # <<>> /\ error_message' = None
                              ELSE result_text' = <<>> /\ error_message' # None) ]_vars

\* C11 witness: everything was cleared after one request had completed and
\* while another is still outstanding, loading being on.
C11_Witness ==
    /\ Cleared
    /\ is_loading
    /\ completed = 1
    /\ Len(outstanding) = 1

Called(function) == IsSome(call) /\ Unwrap(call).function = function

\* C13: extract_json is idempotent: applied to what it returned for any
\* response text, it returns the same text again.
C13_ExtractJsonIdempotent ==
    Called("extract_json") => extract_json(Unwrap(call).returns) = Unwrap(call).returns

\* C14: for every payload without white space at either end that neither
\* begins nor ends with a fence marker, extract_json returns exactly the
\* payload when called with the payload alone, within white space, within a
\* fence tagged json and within a bare fence.
C14_ExtractJsonReturnsPayload ==
    Called("extract_json")
      => \A p \in Payloads :
           Unwrap(call).text \in {Alone(p), Padded(p), FencedJson(p), FencedBare(p)}
             => Unwrap(call).returns = p

\* C14 witness: a payload that holds fence markers and white space inside was
\* returned from within a fence tagged json.
C14_Witness ==
    /\ Called("extract_json")
    /\ Unwrap(call).text = FencedJson(<<"[]", " ">> \o Fence \o <<"[]">>)
    /\ Unwrap(call).returns = <<"[]", " ">> \o Fence \o <<"[]">>

\* The messages of an empty response
EmptyResponseErrors == { <<"No candidates returned">>, <<"No parts returned">> }

\* The error shown is one of an empty response, under the localized prefix
ShowsEmptyResponse(error) ==
    \E e \in EmptyResponseErrors : error = Some(s.error_prefix \o <<": ">> \o e)

\* C15: when the envelope decodes and holds no candidate, or its first
\* candidate holds no part, the operation fails with an empty-response error,
\* which no transport, status or decoding failure gives, and its completion
\* is handled as any failure: loading turns off, the error is shown under
\* the prefix, the result text stays.
C15_EmptyResponseFails ==
    /\ \A answer \in Answers, e \in EmptyResponseErrors :
          /\ ~(EmptyCandidates(answer) \/ EmptyParts(answer)) => check_grammar(answer).err # e
          /\ ~(EmptyCandidates(answer) \/ EmptyParts(answer)) => enhance_text(answer).err # e
    /\ [][ \A answer \in Answers :
             EmptyCandidates(answer) \/ EmptyParts(answer)
               => /\ (HandlesCheckComplete(answer)
                        => /\ ~is_loading'
                           /\ ShowsEmptyResponse(error_message')
                           /\ result_text' = result_text)
                  /\ (HandlesEnhanceComplete(answer)
                        => /\ ~is_loading'
                           /\ ShowsEmptyResponse(error_message')
                           /\ result_text' = result_text) ]_vars

\* C15 witness: a request completed with an envelope whose first candidate
\* holds no part: the empty-response error is shown, loading is off.
C15_Witness ==
    /\ error_message = Some(s.error_prefix \o <<": ", "No parts returned">>)
    /\ ~is_loading
    /\ outstanding = <<>>
    /\ completed = 1

\* The remote error of an answer: the status and the body, empty when the
\* body cannot be read
RemoteError(answer) ==
    <<"Gemini API error (">> \o status_text(answer.status) \o <<"): ">>
        \o (IF answer.body_text = None THEN <<>> ELSE answer.body_text[1])

\* C16: when the status of the response is not a success status,
\* send_request fails with the remote error of the status and the body (empty
\* when the body cannot be read), and so do check_grammar and enhance_text,
\* whether or not the body would decode as an envelope or a result.
C16_RemoteError ==
    IsSome(call) /\ Unwrap(call).function \in {"send_request", "check_grammar", "enhance_text"}
      /\ NonSuccessStatus(Unwrap(call).answer)
      => Unwrap(call).returns = Err(RemoteError(Unwrap(call).answer))

\* C16 witness: check_grammar met status 429 with a body that cannot be read
\* as text but would decode as an envelope with a valid result, and failed
\* with the remote error of an empty body.
C16_Witness ==
    /\ Called("check_grammar")
    /\ Unwrap(call).answer = Answer(TRUE, 429, None, Some(<< <<<<JsonCheckNoIssues>>>> >>))
    /\ Unwrap(call).returns = Err(<<"Gemini API error (", "429 Too Many Requests", "): ">>)

\* C17: every accepted operation spawns exactly one network task and every
\* task delivers exactly one completion: the completions handled are always
\* the requests dispatched less those outstanding, a dispatch adds one task,
\* a completion removes one and dispatches nothing, and the completion of a
\* failed call shows the failure at once.
C17_OneCallOneCompletion ==
    /\ [](completed + Len(outstanding) = dispatched)
    /\ [][ /\ dispatched' # dispatched
               => /\ dispatched' = dispatched + 1
                  /\ Len(outstanding') = Len(outstanding) + 1
                  /\ SubSeq(outstanding', 1, Len(outstanding)) = outstanding
                  /\ completed' = completed
           /\ completed' # completed
               => /\ completed' = completed + 1
                  /\ Len(outstanding') = Len(outstanding) - 1
                  /\ dispatched' = dispatched
                  /\ \A answer \in MainAnswers :
                       /\ (HandlesCheckComplete(answer) /\ Fails("Check", answer)
                             => ShowsPrefixedError(error_message'))
                       /\ (HandlesEnhanceComplete(answer) /\ Fails("Enhance", answer)
                             => ShowsPrefixedError(error_message')) ]_vars

\* C17 witness: two requests were dispatched, one has completed with a
\* failure that is shown, the other is still outstanding.
C17_Witness ==
    /\ dispatched = 2
    /\ completed = 1
    /\ Len(outstanding) = 1
    /\ ShowsPrefixedError(error_message)

\* The documents of each result shape and the result each decodes to
CheckDocs ==
    { [doc |-> JsonCheckNoIssues, value |-> CheckNoIssues],
      [doc |-> JsonCheckOneIssue, value |-> CheckOneIssue] }
EnhanceDocs == { [doc |-> JsonEnhanceOneChange, value |-> EnhanceOneChange] }

\* The part's text carries the document: alone or within a fence, tagged
\* json or bare, with or without white space around
Carries(part, doc) ==
    \E inner \in { <<doc>>, FencedJson(<<doc>>), FencedBare(<<doc>>) } :
        part \in { inner, Padded(inner) }

\* The answer is a success response with a first candidate with a first part
HasFirstPart(answer) ==
    /\ Decoded(answer)
    /\ Unwrap(answer.envelope) # <<>>
    /\ Unwrap(answer.envelope)[1] # <<>>

FirstPart(answer) == Unwrap(answer.envelope)[1][1]

\* C18: on a success response with a first candidate with a first part, the
\* operation succeeds with exactly the result the text of that part carries
\* (summary absent or present, issues empty or not), and fails when that part
\* carries no document of the result's shape, whatever the other parts and
\* candidates hold.
C18_FirstPartDecoded ==
    /\ Called("check_grammar") /\ HasFirstPart(Unwrap(call).answer)
         => /\ \A d \in CheckDocs :
                 Carries(FirstPart(Unwrap(call).answer), d.doc)
                   => Unwrap(call).returns = Ok(d.value)
            /\ (\A d \in CheckDocs : ~Carries(FirstPart(Unwrap(call).answer), d.doc))
                 => ~Unwrap(call).returns.ok
    /\ Called("enhance_text") /\ HasFirstPart(Unwrap(call).answer)
         => /\ \A d \in EnhanceDocs :
                 Carries(FirstPart(Unwrap(call).answer), d.doc)
                   => Unwrap(call).returns = Ok(d.value)
            /\ (\A d \in EnhanceDocs : ~Carries(FirstPart(Unwrap(call).answer), d.doc))
                 => ~Unwrap(call).returns.ok

\* C18 witness: check_grammar returned the result with one issue and a
\* summary that the first part carries within a fence tagged json, the second
\* part being malformed and a second candidate carrying another result.
C18_Witness ==
    /\ Called("check_grammar")
    /\ Unwrap(call).answer = AnswerCheckFenced
    /\ Unwrap(call).returns = Ok(CheckOneIssue)

\* The built-in presets, by key, as PresetManager::new writes them
BuiltinNames ==
    [ casual |-> <<"Casual">>, business |-> <<"Business">>,
      academic |-> <<"Academic">>, creative |-> <<"Creative">> ]

\* The lookup gives the built-in preset of the key, which has instructions
GivesBuiltin(found, key) ==
    /\ IsSome(found)
    /\ Unwrap(found).name = BuiltinNames[key]
    /\ Unwrap(found).instructions # <<>>

\* The presets table a file gives (none when it is missing or does not parse)
Loaded(file) == IF file.exists /\ file.parsed # None THEN file.parsed[1] ELSE << >>

LoadSucceeds(file) == ~file.exists \/ (file.readable /\ IsSome(file.parsed))

\* C19: before any load every built-in key resolves to its built-in preset,
\* which has instructions; after a load that succeeds every key of the file
\* resolves to the file's preset, a built-in key the file does not hold still
\* resolves to its built-in preset, and a load, successful or not, removes
\* no key.
C19_PresetLookup ==
    /\ Called("get") /\ ~Unwrap(call).loaded /\ Unwrap(call).key \in DOMAIN BuiltinNames
         => GivesBuiltin(Unwrap(call).returns, Unwrap(call).key)
    /\ Called("get") /\ Unwrap(call).loaded /\ LoadSucceeds(Unwrap(call).file)
         => LET table == Loaded(Unwrap(call).file)
                key == Unwrap(call).key
            IN /\ key \in DOMAIN table => Unwrap(call).returns = Some(table[key])
               /\ key \in DOMAIN BuiltinNames /\ key \notin DOMAIN table
                    => GivesBuiltin(Unwrap(call).returns, key)
    /\ Called("get") /\ Unwrap(call).key \in DOMAIN BuiltinNames
         => IsSome(Unwrap(call).returns)
    /\ Called("load_custom_presets")
         => /\ DOMAIN BuiltinNames \subseteq DOMAIN Unwrap(call).returns.presets
            /\ Unwrap(call).returns.result.ok = LoadSucceeds(Unwrap(call).file)

\* C19 witness: after the load of a file that holds casual and pirate, the
\* lookup of casual gave the file's preset, not the built-in one.
C19_Witness ==
    /\ Called("get")
    /\ Unwrap(call).loaded
    /\ Unwrap(call).key = "casual"
    /\ DOMAIN Loaded(Unwrap(call).file) = {"casual", "pirate"}
    /\ Unwrap(call).returns = Some(Loaded(Unwrap(call).file)["casual"])
    /\ Unwrap(Unwrap(call).returns).name = <<"Laid back">>

\* The places of a text at which a part of it begins
Occurrences(whole, part) ==
    { i \in 1..(Len(whole) - Len(part) + 1) : SubSeq(whole, i, i + Len(part) - 1) = part }

\* What comes before the last n characters, and the last n characters
Before(whole, n) == SubSeq(whole, 1, Len(whole) - n)
Last(whole, n) == SubSeq(whole, Len(whole) - n + 1, Len(whole))

\* C20: the check prompt ends with the input text as it is and holds the
\* language at least four times before it; the enhance prompt ends with the
\* input text as it is and holds the preset's name, the preset's instructions
\* and the language before it.
C20_PromptsCarryTheText ==
    /\ Called("check_grammar_prompt")
         => LET prompt == Unwrap(call).returns
                text == Unwrap(call).text
            IN /\ Len(prompt) >= Len(text)
               /\ Last(prompt, Len(text)) = text
               /\ Cardinality(Occurrences(Before(prompt, Len(text)), Unwrap(call).lang)) >= 4
    /\ Called("enhance_text_prompt")
         => LET prompt == Unwrap(call).returns
                text == Unwrap(call).text
                template == Before(prompt, Len(text))
            IN /\ Len(prompt) >= Len(text)
               /\ Last(prompt, Len(text)) = text
               /\ Occurrences(template, Unwrap(call).preset.name) # {}
               /\ Occurrences(template, Unwrap(call).preset.instructions) # {}
               /\ Occurrences(template, Unwrap(call).lang) # {}

\* C20 witness: the check prompt was built for a text that begins with white
\* space and holds a quote and a backslash, and ends with that text.
C20_Witness ==
    /\ Called("check_grammar_prompt")
    /\ Unwrap(call).text = <<" ", "\"", "\\">>
    /\ Last(Unwrap(call).returns, 3) = <<" ", "\"", "\\">>

\* C21: every outstanding enhance request carries a preset of the preset
\* manager; when EnhanceText is handled with a client configured, input that
\* is not blank and a selected key that does not resolve, nothing is
\* dispatched, the loading state stays as it was and the error message is the
\* invalid-preset message.
C21_ResolvedPresetOnly ==
    /\ [](\A i \in 1..Len(outstanding) :
            outstanding[i].kind = "Enhance"
              => /\ outstanding[i].preset # None
                 /\ \E k \in DOMAIN preset_manager :
                      outstanding[i].preset = Some(preset_manager[k]))
    /\ [][ HandlesEnhanceText /\ IsSome(gemini_client) /\ ~Blank(input_content)
             /\ selected_preset \notin DOMAIN preset_manager
             => /\ error_message' = Some(s.invalid_preset)
                /\ UNCHANGED <<outstanding, dispatched, is_loading>> ]_vars

\* C21 witness: the invalid-preset message is shown for the key pirate, which
\* no preset has, a client being configured and the input not blank.
C21_Witness ==
    /\ error_message = Some(s.invalid_preset)
    /\ selected_preset = "pirate"
    /\ selected_preset \notin DOMAIN preset_manager
    /\ IsSome(gemini_client)
    /\ input_content = <<"a">>
    /\ dispatched = 0

\* The texts of a sequence of texts, one after the other
RECURSIVE Joined(_)
Joined(texts) == IF texts = <<>> THEN <<>> ELSE Head(texts) \o Joined(Tail(texts))

\* The decimal numeral of a count below 10
Numeral(n) ==
    CASE n = 0 -> "0" [] n = 1 -> "1" [] n = 2 -> "2" [] n = 3 -> "3" [] n = 4 -> "4"
      [] n = 5 -> "5" [] n = 6 -> "6" [] n = 7 -> "7" [] n = 8 -> "8" [] n = 9 -> "9"

\* The localized lines, by language
Lines(lang) == IF lang = "Chinese" THEN CHINESE ELSE ENGLISH

\* The found-N header: the localized line with the numeral for its placeholder
Header(lang, n) ==
    [ i \in 1..Len(Lines(lang).found_issues) |->
        IF Lines(lang).found_issues[i] = "{}" THEN Numeral(n)
        ELSE Lines(lang).found_issues[i] ]

\* The block of the n-th issue
Block(n, issue) ==
    <<Numeral(n), ". \"">> \o issue.original \o <<"\" -> \"">> \o issue.corrected
        \o <<"\"\n   ">> \o issue.explanation \o <<" (">> \o issue.rule \o <<")\n\n">>

\* C22: a check result without issues renders as the localized no-issues
\* line, one with N issues as the found-N header and the N blocks numbered
\* 1..N in the order of the issues, either followed by the separator, the
\* corrected-text line and the corrected text; an enhance result renders as
\* the enhanced-text line, the enhanced text, the separator, the changes-made
\* line and one bulleted line per change in the order of changes_made.
C22_RenderedResult ==
    /\ Called("render_check")
         => LET result == Unwrap(call).result
                lang == Unwrap(call).lang
                N == Len(result.issues)
                tail == <<"---\n">> \o Lines(lang).corrected_text \o <<"\n\n">>
                          \o result.corrected_text
            IN Unwrap(call).returns =
                 IF N = 0
                 THEN Lines(lang).no_issues \o <<"\n\n">> \o tail
                 ELSE Header(lang, N) \o <<"\n\n">>
                        \o Joined([ i \in 1..N |-> Block(i, result.issues[i]) ]) \o tail
    /\ Called("render_enhance")
         => LET result == Unwrap(call).result
                lang == Unwrap(call).lang
            IN Unwrap(call).returns =
                 Lines(lang).enhanced_text \o <<"\n\n">> \o result.enhanced_text
                   \o <<"\n\n---\n">> \o Lines(lang).changes_made \o <<"\n\n">>
                   \o Joined([ i \in 1..Len(result.changes_made) |->
                                <<"* ">> \o result.changes_made[i] \o <<"\n">> ])

\* C22 witness: a result with two different issues was rendered in English:
\* the header says 2 and the second block is numbered 2.
C22_Witness ==
    /\ Called("render_check")
    /\ Unwrap(call).lang = "English"
    /\ Unwrap(call).result.issues = <<IssueB, IssueA>>
    /\ SubSeq(Unwrap(call).returns, 1, 3) = <<"Found ", "2", " issue(s):">>
    /\ Occurrences(Unwrap(call).returns, <<"2", ". \"", "teh">>) # {}

\* A text with one marker removed from its front, or from its end
WithoutFront(text, marker) == SubSeq(text, Len(marker) + 1, Len(text))
WithoutEnd(text, marker) == SubSeq(text, 1, Len(text) - Len(marker))

\* A text without the white space at its ends
Trimmed(text) ==
    LET inside == { i \in 1..Len(text) : text[i] \notin Whitespace } IN
    IF inside = {} THEN <<>>
    ELSE SubSeq(text, CHOOSE i \in inside : \A j \in inside : i <= j,
                      CHOOSE i \in inside : \A j \in inside : i >= j)

\* The text with exactly one opening marker (with its json tag if it has
\* one) and exactly one closing marker removed, then trimmed
OneFenceRemoved(text) ==
    LET tagged == Len(text) >= Len(FenceJson) /\ SubSeq(text, 1, Len(FenceJson)) = FenceJson
        opened == IF tagged THEN WithoutFront(text, FenceJson) ELSE WithoutFront(text, Fence)
        closed == IF Len(opened) >= 3 /\ SubSeq(opened, Len(opened) - 2, Len(opened)) = Fence
                  THEN WithoutEnd(opened, Fence)
                  ELSE opened
    IN Trimmed(closed)

\* C23: for a text that, trimmed, starts with a fence marker, extract_json
\* returns it with exactly one opening marker (and its json tag) and exactly
\* one closing marker removed and then trimmed, further markers being kept;
\* any other text it returns trimmed, even one that ends with a marker.
C23_ExactlyOneFenceRemoved ==
    Called("extract_json")
      => LET text == Trimmed(Unwrap(call).text) IN
         Unwrap(call).returns =
           IF Len(text) >= 3 /\ SubSeq(text, 1, 3) = Fence
           THEN OneFenceRemoved(text)
           ELSE text

\* A step in which App::update handles Message::SaveApiKey, save_config
\* yielding saved
HandlesSaveApiKey(saved) ==
    current_view = "Settings" /\ update_SaveApiKey(saved) /\ UNCHANGED <<task, call>>

\* C24: in every reachable state a client is configured exactly when the
\* stored credential is not empty.
C24_ClientIffCredential == IsSome(gemini_client) <=> config_key # <<>>

\* C25: when save_config fails, handling SaveApiKey changes the error
\* message only, to the save-failed message, and the stored credential and
\* the client stay as they were; when it succeeds, the stored credential and
\* the client are those of the key entered and the error is cleared.
C25_SaveAllOrNothing ==
    [][ \A saved \in SaveOutcomes :
          HandlesSaveApiKey(saved)
            => IF saved.ok
               THEN /\ config_key' = api_key_input
                    /\ gemini_client' = Some([api_key |-> api_key_input])
                    /\ error_message' = None
               ELSE /\ IsSome(error_message')
                    /\ StartsWith(Unwrap(error_message'), s.save_failed)
                    /\ UNCHANGED <<config_key, gemini_client>> ]_vars

\* The text is a rendered result all of whose localized lines are in the
\* language: the enhanced-text and changes-made lines, or the no-issues or
\* found-N line and the corrected-text line
RenderedIn(text, lang) ==
    \/ /\ StartsWith(text, Lines(lang).enhanced_text \o <<"\n\n">>)
       /\ Occurrences(text, <<"\n\n---\n">> \o Lines(lang).changes_made \o <<"\n\n">>) # {}
    \/ /\ \/ StartsWith(text, Lines(lang).no_issues \o <<"\n\n">>)
          \/ \E n \in 1..MaxIssues : StartsWith(text, Header(lang, n) \o <<"\n\n">>)
       /\ Occurrences(text, <<"---\n">> \o Lines(lang).corrected_text \o <<"\n\n">>) # {}

\* C26: no step that changes the outstanding requests, or the text, preset,
\* explanation language or client of one of them, is the handling of an
\* InputChanged, PasteFromClipboard, PresetSelected, LanguageChanged,
\* SaveApiKey or ClearAll message; and the step that completes a request
\* either shows a result rendered with the strings of the interface language
\* of that moment, or keeps the result and shows an error that begins with
\* the error prefix of that language.
C26_RequestFixedAtDispatch ==
    [][ /\ outstanding' # outstanding
             => ~(UserInputChanged \/ UserPasteFromClipboard \/ UserPresetSelected
                    \/ UserLanguageChanged \/ UserSaveApiKey \/ UserClearAll)
        /\ completed' # completed
             => \/ RenderedIn(result_text', language)
                \/ /\ result_text' = result_text
                   /\ IsSome(error_message')
                   /\ StartsWith(Unwrap(error_message'), Lines(language).error_prefix) ]_vars

\* C26 witness: a request is outstanding whose text is no longer the input
\* text and whose explanation language is no longer the interface language.
C26_Witness ==
    /\ is_loading
    /\ Len(outstanding) = 1
    /\ outstanding[1].text = <<"a">>
    /\ input_content = <<>>
    /\ outstanding[1].lang = <<"English">>
    /\ language = "Chinese"

\* C27: a CheckGrammar handled with no client or with blank input, and an
\* EnhanceText handled with no client, with blank input or with a selected key
\* that does not resolve, sets an error message and changes nothing else: the
\* input text, the result text, the loading state and the outstanding
\* requests are after the step what they were before it.
C27_RejectionChangesErrorOnly ==
    [][ \/ HandlesCheckGrammar /\ ~CheckAcceptable
        \/ HandlesEnhanceText /\ ~EnhanceAcceptable
        => /\ IsSome(error_message')
           /\ UNCHANGED <<input_content, result_text, is_loading, outstanding,
                          dispatched, completed, gemini_client, config_key,
                          api_key_input, preset_manager, selected_preset,
                          current_view, language>> ]_vars

\* C27 witness: a check was rejected for blank input while an enhance request
\* is outstanding: loading is still on, the request is still there and the
\* result is the one shown before.
C27_Witness ==
    /\ error_message = Some(s.enter_text_check)
    /\ Blank(input_content)
    /\ is_loading
    /\ Len(outstanding) = 1
    /\ outstanding[1].kind = "Enhance"
    /\ dispatched = 1

\* C28: a rejected request reports the one error its first failing test
\* gives: for CheckGrammar the missing client, then the blank input; for
\* EnhanceText the missing client, then the blank input, then the key that
\* does not resolve.
C28_RejectionPrecedence ==
    [][ /\ (HandlesCheckGrammar /\ ~CheckAcceptable
              => error_message' =
                   Some(IF ~IsSome(gemini_client) THEN s.api_not_configured
                        ELSE s.enter_text_check))
        /\ (HandlesEnhanceText /\ ~EnhanceAcceptable
              => error_message' =
                   Some(IF ~IsSome(gemini_client) THEN s.api_not_configured
                        ELSE IF Blank(input_content) THEN s.enter_text_enhance
                        ELSE s.invalid_preset)) ]_vars

\* C28 witness: an enhance was rejected with the input blank and the selected
\* key resolving to no preset, a client being configured: the enter-text
\* message is the one shown.
C28_Witness ==
    /\ error_message = Some(s.enter_text_enhance)
    /\ IsSome(gemini_client)
    /\ Blank(input_content)
    /\ selected_preset \notin DOMAIN preset_manager
    /\ dispatched = 0

\* The flags App::new was called with
StartFlags == Unwrap(call).flags

\* C29: started and left to itself, the application dispatches at most one
\* request. With initial text, that text is the input, and the message the
\* start triggers is CheckGrammar if auto_check is set, otherwise EnhanceText
\* if auto_enhance is set: until that message is handled it is the one to
\* be delivered, and no request of the other kind is ever dispatched. With no
\* initial text and no clipboard flag nothing is to be delivered, no request
\* is outstanding, loading is off, the result is empty and no error is shown.
C29_StartupTriggersAtMostOne ==
    /\ [](dispatched <= 1)
    /\ [](IsSome(StartFlags.initial_text)
            => /\ input_content = Unwrap(StartFlags.initial_text)
               /\ (dispatched = 0 /\ error_message = None
                     => task = (IF StartFlags.auto_check THEN Some("CheckGrammar")
                                ELSE IF StartFlags.auto_enhance THEN Some("EnhanceText")
                                ELSE None))
               /\ \A i \in 1..Len(outstanding) :
                     outstanding[i].kind
                       = (IF StartFlags.auto_check THEN "Check" ELSE "Enhance"))
    /\ [](/\ ~IsSome(StartFlags.initial_text)
           /\ ~StartFlags.check_clipboard
           /\ ~StartFlags.enhance_clipboard
            => /\ task = None
               /\ outstanding = <<>>
               /\ dispatched = 0
               /\ ~is_loading
               /\ result_text = <<>>
               /\ error_message = None)
    /\ [][ /\ (HandlesCheckGrammar /\ IsSome(StartFlags.initial_text)
                => StartFlags.auto_check)
           /\ (HandlesEnhanceText /\ IsSome(StartFlags.initial_text)
                => ~StartFlags.auto_check /\ StartFlags.auto_enhance) ]_vars

\* C29 witness: started with initial text and both auto_check and
\* auto_enhance, the application has dispatched one request, a check of the
\* initial text, and nothing more is to be delivered.
C29_Witness ==
    /\ IsSome(call)
    /\ StartFlags.initial_text = Some(<<"a">>)
    /\ StartFlags.auto_check
    /\ StartFlags.auto_enhance
    /\ task = None
    /\ dispatched = 1
    /\ Len(outstanding) = 1
    /\ outstanding[1].kind = "Check"
    /\ outstanding[1].text = <<"a">>
    /\ is_loading

\* C30: load_custom_presets of a file that does not exist returns Ok and the
\* presets are the ones before the call; of a file that exists and cannot be
\* read or does not parse it returns an error and the presets are the ones
\* before the call; the presets differ from the ones before the call only
\* when it returns Ok; and after every call each built-in key is still in the
\* map, with its built-in preset when the map was not changed.
C30_LoadChangesOnlyOnSuccess ==
    Called("load_custom_presets")
      => LET before == Unwrap(call).presets
             file == Unwrap(call).file
             result == Unwrap(call).returns.result
             after == Unwrap(call).returns.presets
         IN /\ ~file.exists => result.ok /\ after = before
            /\ file.exists /\ (~file.readable \/ file.parsed = None)
                 => ~result.ok /\ after = before
            /\ after # before => result.ok
            /\ \A key \in DOMAIN BuiltinNames :
                 /\ key \in DOMAIN after
                 /\ after = before => after[key].name = BuiltinNames[key]

\* C30 witness: the load of a file that is there and is not TOML returned the
\* parse error and left the four built-in presets as the map.
C30_Witness ==
    /\ Called("load_custom_presets")
    /\ Unwrap(call).file.exists
    /\ Unwrap(call).file.readable
    /\ Unwrap(call).file.parsed = None
    /\ ~Unwrap(call).returns.result.ok
    /\ Unwrap(call).returns.result.err = <<"Failed to parse presets file">>
    /\ DOMAIN Unwrap(call).returns.presets = DOMAIN BuiltinNames

====
